---- MODULE Spec2Model ----
(***************************************************************************)
(* Model of the symbolic solver core: the effective Boolean algebra of     *)
(* predicates over a character domain (src/src/boolean_algebra/mod.rs),    *)
(* the smart constructors of regular expressions                           *)
(* (src/src/regular/regex.rs), minimize and generalized_run of the state   *)
(* machine trait and the state identifiers (src/src/state.rs), and the     *)
(* wrapped character domain (src/src/util.rs).                             *)
(* Characters are their code points; Option<T> is <<>> (None) or <<c>>     *)
(* (Some(c)); Vec<T> is a sequence; an enum value is a record whose tag    *)
(* field names the variant.                                                *)
(***************************************************************************)
EXTENDS Integers, Sequences, FiniteSets, TLC

(* ---- bounds of the model ---- *)
\* number of distinct characters the operations are called with
NumChars == 4
\* most nodes the two predicates kept for further operations have together
MaxNodes == 3
\* longest list handed to in_set, string handed to seq, input of a run
MaxLen == 2
\* number of distinct characters the function terms mention
NumLambdaChars == 2
\* number of distinct characters the regex constructors are called with
NumRegexChars == 2
\* most nodes a regex kept for further operations has
MaxRegexNodes == 2
\* number of states of a machine
NumStates == 2
\* most <<source, guard, target>> triples in the transition table of a machine
MaxEdges == 2
\* number of threads that call State::new
NumThreads == 2
\* most calls of State::new in a session
MaxCalls == 4

(* ---- program constants ---- *)
\* b'a', where the fallback scan of get_one starts
ScanStart == 97
\* u8::MAX
U8Max == 255
\* char::default()
CharDefault == 0
\* width of the `as u8` cast
ByteMod == 256
\* '#', char::separator()
SeparatorChar == 35

\* characters the operations are called with: 'a', 'b', ...
Chars == ScanStart .. (ScanStart + NumChars - 1)
\* characters every denotation is compared on: all bytes and one char beyond
Domain == 0 .. (U8Max + 1)

None == <<>>
Some(c) == <<c>>
OptChars == {None} \cup {Some(c) : c \in Chars}

(* ---- enum Predicate<T> ---- *)
Bool(b) == [tag |-> "Bool", b |-> b]
Eq(a) == [tag |-> "Eq", a |-> a]
Range(left, right) == [tag |-> "Range", left |-> left, right |-> right]
InSet(els) == [tag |-> "InSet", els |-> els]
And(p1, p2) == [tag |-> "And", p1 |-> p1, p2 |-> p2]
Or(p1, p2) == [tag |-> "Or", p1 |-> p1, p2 |-> p2]
Not(p) == [tag |-> "Not", p |-> p]
WithLambda(p, f) == [tag |-> "WithLambda", p |-> p, f |-> f]

(* ---- enum Lambda<B> (function terms) ---- *)
Id == [tag |-> "Id"]
Constant(c) == [tag |-> "Constant", c |-> c]
Mapping(m) == [tag |-> "Mapping", m |-> m]
Function(fs) == [tag |-> "Function", fs |-> fs]
Composition(f, g) == [tag |-> "Composition", f |-> f, g |-> g]

\* the value of a function term where it is undefined
Undef == -1

Contains(s, e) == \E i \in 1..Len(s) : s[i] = e

top == Bool(TRUE)

bot == Bool(FALSE)

boolean(b) == IF b THEN top ELSE bot

char(a) == Eq(a)

RECURSIVE PredEq(_, _)
RECURSIVE LambdaEq(_, _)
RECURSIVE FunctionEq(_, _)
\* impl PartialEq for Predicate: And and Or compare as unordered pairs
PredEq(p, q) ==
  IF p.tag # q.tag THEN FALSE
  ELSE CASE p.tag = "Bool" -> p.b = q.b
         [] p.tag = "Eq" -> p.a = q.a
         [] p.tag = "Range" -> p.left = q.left /\ p.right = q.right
         [] p.tag = "InSet" -> p.els = q.els
         [] p.tag \in {"And", "Or"} ->
              \/ (PredEq(p.p1, q.p1) /\ PredEq(p.p2, q.p2))
              \/ (PredEq(p.p1, q.p2) /\ PredEq(p.p2, q.p1))
         [] p.tag = "Not" -> PredEq(p.p, q.p)
         [] p.tag = "WithLambda" -> PredEq(p.p, q.p) /\ LambdaEq(p.f, q.f)

FunctionEq(fs, gs) ==
  /\ Len(fs) = Len(gs)
  /\ \A i \in 1..Len(fs) : PredEq(fs[i][1], gs[i][1]) /\ fs[i][2] = gs[i][2]

LambdaEq(f, g) ==
  IF f.tag # g.tag THEN FALSE
  ELSE CASE f.tag = "Id" -> TRUE
         [] f.tag = "Constant" -> f.c = g.c
         [] f.tag = "Mapping" -> f.m = g.m
         [] f.tag = "Function" -> FunctionEq(f.fs, g.fs)
         [] f.tag = "Composition" -> LambdaEq(f.f, g.f) /\ LambdaEq(f.g, g.g)

RECURSIVE denote(_, _)
RECURSIVE apply(_, _)
RECURSIVE FirstGuard(_, _, _)
\* FunctionTerm::apply: the image of arg, Undef where the term has none
FirstMatch(m, arg) ==
  IF \E i \in 1..Len(m) : m[i][1] = arg
  THEN m[CHOOSE i \in 1..Len(m) :
            m[i][1] = arg /\ \A j \in 1..(i - 1) : m[j][1] # arg][2]
  ELSE Undef

FirstGuard(fs, i, arg) ==
  IF i > Len(fs) THEN Undef
  ELSE IF denote(fs[i][1], arg) THEN fs[i][2]
  ELSE FirstGuard(fs, i + 1, arg)

apply(f, arg) ==
  IF arg = Undef THEN Undef
  ELSE CASE f.tag = "Id" -> arg
         [] f.tag = "Constant" -> f.c
         [] f.tag = "Mapping" -> FirstMatch(f.m, arg)
         [] f.tag = "Function" -> FirstGuard(f.fs, 1, arg)
         [] f.tag = "Composition" -> apply(f.f, apply(f.g, arg))

\* FunctionTerm::compose: x -> f(g(x)), reduced eagerly
compose(f, g) ==
  IF f.tag = "Id" THEN g
  ELSE IF g.tag = "Id" THEN f
  ELSE IF f.tag = "Constant" THEN f
  ELSE Composition(f, g)

\* BoolAlg::denote
denote(p, arg) ==
  CASE p.tag = "Bool" -> p.b
    [] p.tag = "Eq" -> p.a = arg
    [] p.tag = "Range" ->
         /\ (IF p.left # None THEN p.left[1] <= arg ELSE TRUE)
         /\ (IF p.right # None THEN arg < p.right[1] ELSE TRUE)
    [] p.tag = "InSet" -> Contains(p.els, arg)
    [] p.tag = "And" -> denote(p.p1, arg) /\ denote(p.p2, arg)
    [] p.tag = "Or" -> denote(p.p1, arg) \/ denote(p.p2, arg)
    [] p.tag = "Not" -> ~denote(p.p, arg)
    [] p.tag = "WithLambda" ->
         LET v == apply(p.f, arg) IN IF v = Undef THEN FALSE ELSE denote(p.p, v)

\* range without the rewrite of a one-element interval to Eq
range_keeps_singleton(left, right) ==
  IF left # None /\ right # None
  THEN IF right[1] < left[1] THEN bot ELSE Range(left, right)
  ELSE IF left = None /\ right = None THEN top
  ELSE Range(left, right)

\* Predicate::range
range(left, right) ==
  IF left # None /\ right # None
  THEN IF right[1] < left[1] THEN bot
       ELSE IF right[1] = left[1] THEN char(left[1])
       ELSE Range(left, right)
  ELSE IF left = None /\ right = None THEN top
  ELSE Range(left, right)

RECURSIVE Dedup(_, _)
\* the loop of in_set: keep the first occurrence of every element
Dedup(elements, els) ==
  IF elements = <<>> THEN els
  ELSE Dedup(Tail(elements),
             IF Contains(els, Head(elements)) THEN els
             ELSE Append(els, Head(elements)))

RECURSIVE Insert(_, _)
Insert(s, e) ==
  IF s = <<>> THEN <<e>>
  ELSE IF e < Head(s) THEN <<e>> \o s
  ELSE <<Head(s)>> \o Insert(Tail(s), e)

RECURSIVE Sort(_)
\* Vec::sort on characters
Sort(s) == IF s = <<>> THEN <<>> ELSE Insert(Sort(Tail(s)), Head(s))

\* Predicate::in_set
in_set(elements) ==
  LET els == Sort(Dedup(elements, <<>>)) IN
  IF Len(els) = 0 THEN bot
  ELSE IF Len(els) = 1 THEN char(els[1])
  ELSE InSet(els)

RECURSIVE Filter(_, _, _)
\* els.into_iter().filter(|e| p.denote(e) == keep)
Filter(els, p, keep) ==
  IF els = <<>> THEN <<>>
  ELSE IF denote(p, Head(els)) = keep
       THEN <<Head(els)>> \o Filter(Tail(els), p, keep)
       ELSE Filter(Tail(els), p, keep)

OptMax(a, b) == IF a = None THEN b ELSE IF b = None THEN a
                ELSE IF a[1] >= b[1] THEN a ELSE b

OptMin(a, b) == IF a = None THEN b ELSE IF b = None THEN a
                ELSE IF a[1] <= b[1] THEN a ELSE b


RECURSIVE and(_, _)
RECURSIVE or(_, _)
\* not that wraps a Bool like any other predicate, and still unwraps a Not
not_wraps_bool(self) ==
  IF self.tag = "Not" THEN self.p ELSE Not(self)

\* BoolAlg::not for Predicate
not(self) ==
  IF self.tag = "Not" THEN self.p
  ELSE IF self.tag = "Bool" THEN Bool(~self.b)
  ELSE Not(self)

\* BoolAlg::and for Predicate; the arms are tried in the order of the match
and(self, other) ==
  IF self.tag = "Bool" THEN (IF self.b THEN other ELSE bot)
  ELSE IF other.tag = "Bool" THEN (IF other.b THEN self ELSE bot)
  ELSE IF self.tag = "Eq" THEN (IF denote(other, self.a) THEN Eq(self.a) ELSE bot)
  ELSE IF other.tag = "Eq" THEN (IF denote(self, other.a) THEN Eq(other.a) ELSE bot)
  ELSE IF self.tag = "Range" /\ other.tag = "Range"
       THEN range(OptMax(self.left, other.left), OptMin(self.right, other.right))
  ELSE IF self.tag = "InSet" THEN in_set(Filter(self.els, other, TRUE))
  ELSE IF other.tag = "InSet" THEN in_set(Filter(other.els, self, TRUE))
  ELSE IF self.tag = "Not" /\ PredEq(self.p, other) THEN bot
  ELSE IF other.tag = "Not" /\ PredEq(other.p, self) THEN bot
  ELSE IF self.tag = "Not" /\ other.tag = "Not" THEN Not(or(self.p, other.p))
  ELSE IF PredEq(self, other) THEN self
  ELSE And(self, other)

\* the test of the Range arm of or: a left bound not above the other's right bound
Touches(l, r) == l # None /\ r # None /\ l[1] <= r[1]

\* pl.and_then(|pl| ql.map(|ql| pl.min(ql))) and its dual
BothMin(a, b) == IF a = None \/ b = None THEN None
                 ELSE IF a[1] <= b[1] THEN a ELSE b

BothMax(a, b) == IF a = None \/ b = None THEN None
                 ELSE IF a[1] >= b[1] THEN a ELSE b

\* the (InSet(els), p) | (p, InSet(els)) arm of or
OrInSet(els, p) ==
  LET els_ == Filter(els, p, FALSE) IN
  IF Len(els_) = 0 THEN p ELSE Or(InSet(els_), p)

\* the (Eq(c), InSet(els)) | (InSet(els), Eq(c)) arm of or
OrEqInSet(c, els) ==
  IF Contains(els, c) THEN InSet(els) ELSE InSet(Append(els, c))

\* BoolAlg::or for Predicate; the arms are tried in the order of the match
or(self, other) ==
  IF self.tag = "Bool" THEN (IF self.b THEN top ELSE other)
  ELSE IF other.tag = "Bool" THEN (IF other.b THEN top ELSE self)
  ELSE IF self.tag = "Eq" /\ denote(other, self.a) THEN other
  ELSE IF other.tag = "Eq" /\ denote(self, other.a) THEN self
  ELSE IF self.tag = "Eq" /\ other.tag = "Eq" THEN in_set(<<self.a, other.a>>)
  ELSE IF self.tag = "Eq" /\ other.tag = "InSet" THEN OrEqInSet(self.a, other.els)
  ELSE IF self.tag = "InSet" /\ other.tag = "Eq" THEN OrEqInSet(other.a, self.els)
  ELSE IF self.tag = "Range" /\ other.tag = "Range"
       THEN IF Touches(self.left, other.right) \/ Touches(other.left, self.right)
            THEN range(BothMin(self.left, other.left), BothMax(self.right, other.right))
            ELSE Or(self, other)
  ELSE IF self.tag = "InSet" /\ other.tag = "InSet" THEN in_set(self.els \o other.els)
  ELSE IF self.tag = "InSet" THEN OrInSet(self.els, other)
  ELSE IF other.tag = "InSet" THEN OrInSet(other.els, self)
  ELSE IF self.tag = "Not" /\ PredEq(self.p, other) THEN top
  ELSE IF other.tag = "Not" /\ PredEq(other.p, self) THEN top
  ELSE IF self.tag = "Not" /\ other.tag = "Not" THEN Not(and(self.p, other.p))
  ELSE IF PredEq(self, other) THEN self
  ELSE Or(self, other)

\* BoolAlg::with_lambda for Predicate
with_lambda(self, f) ==
  IF f.tag = "Id" THEN self
  ELSE IF f.tag = "Constant" THEN boolean(denote(self, f.c))
  ELSE IF self.tag = "Bool" THEN boolean(self.b)
  ELSE IF self.tag = "WithLambda" THEN WithLambda(self.p, compose(f, self.f))
  ELSE WithLambda(self, f)

\* BoolAlg::satisfiable for Predicate
satisfiable(self) == ~(self.tag = "Bool" /\ self.b = FALSE)


(* ---- struct SatisfiableSet<D> and the witness extraction ---- *)
\* how a conversion ends: "done", "panic" (unimplemented!()) or "diverge"
SatSet(inc, exc, sat, end) ==
  [included |-> inc, excluded |-> exc, satisfiable |-> sat, end |-> end]

\* d.into() as u8
AsU8(c) == c % ByteMod

\* SatisfiableSet::maximum
maximum == U8Max

Worse(e1, e2) == IF e1 # "done" THEN e1 ELSE e2

RECURSIVE From(_)
\* impl From<Predicate<D>> for SatisfiableSet<D>
From(p) ==
  CASE p.tag = "Bool" ->
         IF p.b THEN SatSet({CharDefault}, {}, TRUE, "done")
         ELSE SatSet({}, {}, FALSE, "done")
    [] p.tag = "Eq" -> SatSet({p.a}, {}, TRUE, "done")
    [] p.tag = "Range" ->
         LET lo == IF p.left = None THEN 0 ELSE AsU8(p.left[1])
             hi == IF p.right = None THEN maximum ELSE AsU8(p.right[1])
         IN SatSet({i \in lo..(hi - 1) : TRUE}, {}, TRUE, "done")
    [] p.tag = "InSet" ->
         IF Len(p.els) = 0 THEN SatSet({}, {}, FALSE, "done")
         ELSE SatSet({p.els[i] : i \in 1..Len(p.els)}, {}, TRUE, "done")
    [] p.tag = "And" ->
         LET s1 == From(p.p1)
             s2 == From(p.p2)
         IN SatSet(s1.included \cap s2.included, s1.excluded \cup s2.excluded,
                   s1.satisfiable /\ s2.satisfiable, Worse(s1.end, s2.end))
    [] p.tag = "Or" ->
         LET r == not(and(not(p.p1), not(p.p2)))
         IN IF r = p THEN SatSet({}, {}, TRUE, "diverge") ELSE From(r)
    [] p.tag = "Not" ->
         LET s == From(p.p)
         IN IF s.satisfiable
            THEN SatSet({}, s.included \ s.excluded, TRUE, s.end)
            ELSE s
    [] p.tag = "WithLambda" -> SatSet({}, {}, TRUE, "panic")

Ok(v) == [tag |-> "Ok", v |-> v]
NoElement == [tag |-> "NoElement"]
Panic == [tag |-> "Panic"]
Diverge == [tag |-> "Diverge"]

Min(S) == CHOOSE m \in S : \A x \in S : m <= x

\* find_map over an ascending iteration: the least candidate, if any
FirstOf(S) == IF S = {} THEN NoElement ELSE Ok(Min(S))

\* BoolAlg::get_one for Predicate
get_one(self) ==
  LET condition == From(self) IN
  IF condition.end = "panic" THEN Panic
  ELSE IF condition.end = "diverge" THEN Diverge
  ELSE IF ~condition.satisfiable THEN NoElement
  ELSE IF condition.included = {}
       THEN FirstOf((ScanStart .. (maximum - 1)) \ condition.excluded)
  ELSE FirstOf(condition.included \ condition.excluded)


(* ---- the callers: a session of calls on two predicate slots ---- *)
RECURSIVE LambdaSize(_)
LambdaSize(f) ==
  IF f.tag = "Composition" THEN LambdaSize(f.f) + LambdaSize(f.g) ELSE 1

RECURSIVE Size(_)
\* number of nodes of a predicate tree; a WithLambda node counts by the leaves of its term
Size(x) ==
  CASE x.tag \in {"Bool", "Eq", "Range", "InSet"} -> 1
    [] x.tag \in {"And", "Or"} -> 1 + Size(x.p1) + Size(x.p2)
    [] x.tag = "Not" -> 1 + Size(x.p)
    [] x.tag = "WithLambda" -> Size(x.p) + LambdaSize(x.f)

\* the lists in_set is called with: any order, duplicates allowed
Lists == UNION {[1..n -> Chars] : n \in 0..MaxLen}

LambdaChars == ScanStart .. (ScanStart + NumLambdaChars - 1)

\* the function terms with_lambda is called with
Lambdas ==
  {Id}
  \cup {Constant(c) : c \in LambdaChars}
  \cup {Mapping(<<<<k, v>>>>) : k \in LambdaChars, v \in LambdaChars}
  \cup {Function(<<<<Range(Some(k), None), v>>>>) : k \in LambdaChars, v \in LambdaChars}

\* p, q: the two values a session holds; op, args, res: its last call
VARIABLES p, q, op, args, res

\* the static STATE_CNT, the value each thread has fetched inside State::new
\* and not yet returned, and the identifiers returned so far
VARIABLES STATE_CNT, pending, ids

vars == <<p, q, op, args, res, STATE_CNT, pending, ids>>

idVars == <<STATE_CNT, pending, ids>>

Threads == 1 .. NumThreads

\* static STATE_CNT: AtomicUsize = AtomicUsize::new(0), no call in flight
InitStateCnt ==
  /\ STATE_CNT = 0
  /\ pending = [t \in Threads |-> None]
  /\ ids = <<>>

Reg(i) == IF i = 1 THEN p ELSE q

\* the operations that return a predicate
Constructors == {"top", "char", "range", "in_set", "and", "or", "not", "with_lambda"}

\* what satisfiable and get_one are called on: a slot or the predicate just returned
Subjects == {p, q} \cup (IF op \in Constructors THEN {res} ELSE {})

\* keep the returned predicate in slot k while the two slots fit in MaxNodes nodes
Keep(k, v) ==
  IF k = 1
  THEN IF Size(v) + Size(q) <= MaxNodes THEN p' = v /\ q' = q ELSE UNCHANGED <<p, q>>
  ELSE IF Size(v) + Size(p) <= MaxNodes THEN q' = v /\ p' = p ELSE UNCHANGED <<p, q>>

Init ==
  /\ p = top
  /\ q = top
  /\ op = "top"
  /\ args = <<>>
  /\ res = top
  /\ InitStateCnt

\* q = Predicate::char(c)
CallChar ==
  \E c \in Chars :
    /\ op' = "char"
    /\ args' = <<c>>
    /\ res' = char(c)
    /\ Keep(2, res')
    /\ UNCHANGED idVars

\* q = Predicate::range(l, r)
CallRange ==
  \E l \in OptChars, r \in OptChars :
    /\ op' = "range"
    /\ args' = <<l, r>>
    /\ res' = range(l, r)
    /\ Keep(2, res')
    /\ UNCHANGED idVars

\* q = Predicate::in_set(elements)
CallInSet ==
  \E elements \in Lists :
    /\ op' = "in_set"
    /\ args' = <<elements>>
    /\ res' = in_set(elements)
    /\ Keep(2, res')
    /\ UNCHANGED idVars

\* p = x.and(&y)
CallAnd ==
  \E i \in 1..2, j \in 1..2 :
    /\ op' = "and"
    /\ args' = <<Reg(i), Reg(j)>>
    /\ res' = and(Reg(i), Reg(j))
    /\ Keep(1, res')
    /\ UNCHANGED idVars

\* p = x.or(&y)
CallOr ==
  \E i \in 1..2, j \in 1..2 :
    /\ op' = "or"
    /\ args' = <<Reg(i), Reg(j)>>
    /\ res' = or(Reg(i), Reg(j))
    /\ Keep(1, res')
    /\ UNCHANGED idVars

\* x = x.not()
CallNot ==
  \E i \in 1..2 :
    /\ op' = "not"
    /\ args' = <<Reg(i)>>
    /\ res' = not(Reg(i))
    /\ Keep(i, res')
    /\ UNCHANGED idVars

\* q = q.with_lambda(&f)
CallWithLambda ==
  \E f \in Lambdas :
    /\ op' = "with_lambda"
    /\ args' = <<q, f>>
    /\ res' = with_lambda(q, f)
    /\ Keep(2, res')
    /\ UNCHANGED idVars

\* x.satisfiable()
CallSatisfiable ==
  \E s \in Subjects :
    /\ op' = "satisfiable"
    /\ args' = <<s>>
    /\ res' = satisfiable(s)
    /\ UNCHANGED <<p, q>>
    /\ UNCHANGED idVars

\* x.get_one()
CallGetOne ==
  \E s \in Subjects :
    /\ op' = "get_one"
    /\ args' = <<s>>
    /\ res' = get_one(s)
    /\ UNCHANGED <<p, q>>
    /\ UNCHANGED idVars

Next ==
  \/ CallChar
  \/ CallRange
  \/ CallInSet
  \/ CallAnd
  \/ CallOr
  \/ CallNot
  \/ CallSatisfiable
  \/ CallGetOne

\* sessions of the connectives and of the two queries
Spec == Init /\ [][Next]_vars

NextLambda ==
  \/ CallChar
  \/ CallRange
  \/ CallInSet
  \/ CallNot
  \/ CallWithLambda

\* sessions that push function terms into guards
SpecLambda == Init /\ [][NextLambda]_vars


(* ---- the claims ---- *)
RECURSIVE LambdaFree(_)
\* no WithLambda node anywhere in x
LambdaFree(x) ==
  CASE x.tag \in {"Bool", "Eq", "Range", "InSet"} -> TRUE
    [] x.tag \in {"And", "Or"} -> LambdaFree(x.p1) /\ LambdaFree(x.p2)
    [] x.tag = "Not" -> LambdaFree(x.p)
    [] x.tag = "WithLambda" -> FALSE

RECURSIVE OrFree(_)
\* x is built from Bool, Eq, Range, InSet, And and Not alone
OrFree(x) ==
  CASE x.tag \in {"Bool", "Eq", "Range", "InSet"} -> TRUE
    [] x.tag = "And" -> OrFree(x.p1) /\ OrFree(x.p2)
    [] x.tag = "Not" -> OrFree(x.p)
    [] x.tag \in {"Or", "WithLambda"} -> FALSE

Ascending(s) == \A i \in 1..(Len(s) - 1) : s[i] < s[i + 1]

RECURSIVE InSetsCanonical(_)
\* every InSet node of x holds a strictly ascending list of at least two elements
InSetsCanonical(x) ==
  CASE x.tag = "InSet" -> Len(x.els) >= 2 /\ Ascending(x.els)
    [] x.tag \in {"Bool", "Eq", "Range"} -> TRUE
    [] x.tag \in {"And", "Or"} -> InSetsCanonical(x.p1) /\ InSetsCanonical(x.p2)
    [] x.tag \in {"Not", "WithLambda"} -> InSetsCanonical(x.p)

RECURSIVE RangesCanonical(_)
\* no Range node of x has both bounds present and right <= left
RangesCanonical(x) ==
  CASE x.tag = "Range" ->
         ~(x.left # None /\ x.right # None /\ x.right[1] <= x.left[1])
    [] x.tag \in {"Bool", "Eq", "InSet"} -> TRUE
    [] x.tag \in {"And", "Or"} -> RangesCanonical(x.p1) /\ RangesCanonical(x.p2)
    [] x.tag \in {"Not", "WithLambda"} -> RangesCanonical(x.p)

Unsatisfied(x) == \A d \in Domain : ~denote(x, d)

\* C1: the predicate and(p, q) returns accepts exactly the elements that both p
\* and q accept, for all operands built by the smart constructors (two ranges
\* that only touch included).
C1_AndDenotesConjunction ==
  op = "and" =>
    \A d \in Domain : denote(res, d) = (denote(args[1], d) /\ denote(args[2], d))

\* C2: the predicate or(p, q) returns accepts exactly the elements that p or q
\* accepts; two bounded disjoint ranges are not merged over the gap between them.
C2_OrDenotesDisjunction ==
  op = "or" =>
    \A d \in Domain : denote(res, d) = (denote(args[1], d) \/ denote(args[2], d))

\* C3: not(p) accepts exactly the elements p rejects; it unwraps a Not, inverts
\* a Bool and wraps anything else in Not.
C3_NotDenotesComplement ==
  op = "not" =>
    /\ \A d \in Domain : denote(res, d) = ~denote(args[1], d)
    /\ args[1].tag = "Not" => res = args[1].p
    /\ args[1].tag = "Bool" => res = Bool(~args[1].b)
    /\ args[1].tag \notin {"Not", "Bool"} => res = Not(args[1])

\* C3 witness: not was called on Not(InSet(..)) and gave the InSet back.
C3_Witness ==
  /\ op = "not"
  /\ args[1].tag = "Not"
  /\ args[1].p.tag = "InSet"
  /\ res = args[1].p

\* C4: when get_one(p) returns Ok(v) for a predicate over Bool, Eq, Range,
\* InSet, And and Not, p accepts v.
C4_WitnessSound ==
  (op = "get_one" /\ OrFree(args[1]) /\ res.tag = "Ok") => denote(args[1], res.v)

\* C5: get_one returns NoElement for every WithLambda-free predicate that no
\* character satisfies.
C5_NoElementWhenUnsatisfiable ==
  (op = "get_one" /\ LambdaFree(args[1]) /\ Unsatisfied(args[1])) => res = NoElement

\* C6: satisfiable(p) is false exactly for Bool(false), and every predicate the
\* smart constructors return that no element satisfies is Bool(false); hence
\* satisfiable(p) = true means some element satisfies p.
C6_SatisfiableExact ==
  /\ op = "satisfiable" => res = (args[1] # bot)
  /\ (op = "satisfiable" /\ res) => ~Unsatisfied(args[1])
  /\ (op \in Constructors /\ Unsatisfied(res)) => res = bot

\* C7: every InSet node of a predicate the smart constructors return holds a
\* sorted duplicate-free list of at least two elements; in_set of no distinct
\* element is Bool(false), of one distinct element Eq.
C7_InSetCanonical ==
  /\ op \in Constructors => InSetsCanonical(res)
  /\ op = "in_set" =>
       LET S == {args[1][i] : i \in 1..Len(args[1])} IN
       /\ S = {} => res = bot
       /\ Cardinality(S) = 1 => \E c \in S : res = Eq(c)
       /\ Cardinality(S) >= 2 =>
            res.tag = "InSet" /\ {res.els[i] : i \in 1..Len(res.els)} = S

\* C8: range(l, r) is Bool(false) when both bounds are present and r < l, Eq(l)
\* when r = l, Bool(true) when both are absent and Range{l, r} otherwise; no
\* predicate range, and, or return has a Range node with both bounds and r <= l.
C8_RangeCanonical ==
  /\ op = "range" =>
       LET l == args[1]
           r == args[2]
       IN /\ (l # None /\ r # None /\ r[1] < l[1]) => res = Bool(FALSE)
          /\ (l # None /\ r # None /\ r[1] = l[1]) => res = Eq(l[1])
          /\ (l = None /\ r = None) => res = Bool(TRUE)
          /\ ((l = None) # (r = None) \/ (l # None /\ r # None /\ l[1] < r[1]))
               => res = Range(l, r)
  /\ op \in {"range", "and", "or"} => RangesCanonical(res)

\* C8 witness: and of two ranges that share no element was rewritten to Bool(false).
C8_Witness ==
  /\ op = "and"
  /\ args[1].tag = "Range"
  /\ args[2].tag = "Range"
  /\ args[1].left # None
  /\ args[2].right # None
  /\ args[2].right[1] < args[1].left[1]
  /\ res = bot

\* C9: or(p, not(p)) and or(not(p), p) are Bool(true) for every predicate p built
\* by the smart constructors.
C9_OrComplementIsTop ==
  (op = "or" /\ (args[2] = not(args[1]) \/ args[1] = not(args[2]))) => res = top

\* the function terms of the call and of its operand all have a value at d
AllDefined(d) ==
  /\ apply(args[2], d) # Undef
  /\ args[1].tag = "WithLambda" => apply(args[1].f, apply(args[2], d)) # Undef
  /\ res.tag = "WithLambda" => apply(res.f, d) # Undef

\* C10: with_lambda(p, f) accepts x exactly when p accepts f(x), wherever the
\* function terms involved have a value; for p = WithLambda(q, g) that is q at
\* g(f(x)).
C10_WithLambdaDenotes ==
  op = "with_lambda" =>
    \A d \in Domain :
      AllDefined(d) => denote(res, d) = denote(args[1], apply(args[2], d))


(* ---- regular expressions: Regex<char> and its smart constructors ---- *)
Empty == [tag |-> "Empty"]
Epsilon == [tag |-> "Epsilon"]
All == [tag |-> "All"]
Element(c) == [tag |-> "Element", c |-> c]
RegexRange(start, end) == [tag |-> "Range", start |-> start, end |-> end]
Concat(v) == [tag |-> "Concat", v |-> v]
RegexOr(v) == [tag |-> "Or", v |-> v]
Inter(v) == [tag |-> "Inter", v |-> v]
Star(r) == [tag |-> "Star", r |-> r]
Plus(r) == [tag |-> "Plus", r |-> r]
RegexNot(r) == [tag |-> "Not", r |-> r]

\* position of a variant in the enum, which the derived Ord compares first
VariantIndex(x) ==
  CASE x.tag = "Empty" -> 0
    [] x.tag = "Epsilon" -> 1
    [] x.tag = "All" -> 2
    [] x.tag = "Element" -> 3
    [] x.tag = "Range" -> 4
    [] x.tag = "Concat" -> 5
    [] x.tag = "Or" -> 6
    [] x.tag = "Inter" -> 7
    [] x.tag = "Star" -> 8
    [] x.tag = "Plus" -> 9
    [] x.tag = "Not" -> 10

IntCmp(a, b) == IF a < b THEN -1 ELSE IF a = b THEN 0 ELSE 1

\* Ord of Option<char>: None is below every Some
OptCmp(a, b) ==
  IF a = None
  THEN (IF b = None THEN 0 ELSE -1)
  ELSE (IF b = None THEN 1 ELSE IntCmp(a[1], b[1]))

RECURSIVE RegexCmp(_, _)
RECURSIVE VecCmp(_, _)

\* the derived Ord of Regex: variant first, then the fields from left to right
RegexCmp(a, b) ==
  IF VariantIndex(a) # VariantIndex(b)
  THEN IntCmp(VariantIndex(a), VariantIndex(b))
  ELSE CASE a.tag \in {"Empty", "Epsilon", "All"} -> 0
         [] a.tag = "Element" -> IntCmp(a.c, b.c)
         [] a.tag = "Range" ->
              IF OptCmp(a.start, b.start) # 0
              THEN OptCmp(a.start, b.start)
              ELSE OptCmp(a.end, b.end)
         [] a.tag \in {"Concat", "Or", "Inter"} -> VecCmp(a.v, b.v)
         [] a.tag \in {"Star", "Plus", "Not"} -> RegexCmp(a.r, b.r)

\* Ord of Vec<Regex>: lexicographic, a proper prefix is smaller
VecCmp(v, w) ==
  IF v = <<>>
  THEN (IF w = <<>> THEN 0 ELSE -1)
  ELSE IF w = <<>>
       THEN 1
       ELSE IF RegexCmp(Head(v), Head(w)) # 0
            THEN RegexCmp(Head(v), Head(w))
            ELSE VecCmp(Tail(v), Tail(w))

RECURSIVE VecInsert(_, _)
VecInsert(s, e) ==
  IF s = <<>> THEN <<e>>
  ELSE IF RegexCmp(e, Head(s)) < 0 THEN <<e>> \o s
  ELSE <<Head(s)>> \o VecInsert(Tail(s), e)

RECURSIVE VecSort(_)
\* v.sort(): stable, by the derived Ord
VecSort(s) ==
  IF s = <<>> THEN <<>> ELSE VecInsert(VecSort(SubSeq(s, 1, Len(s) - 1)), s[Len(s)])

RECURSIVE PushNew(_, _)
\* for r in v2 { if !v1.contains(&r) { v1.push(r) } }
PushNew(v1, v2) ==
  IF v2 = <<>> THEN v1
  ELSE PushNew(IF Contains(v1, Head(v2)) THEN v1 ELSE Append(v1, Head(v2)), Tail(v2))

empty == Empty

epsilon == Epsilon

all == All

element(c) == Element(c)

\* concat without the arm that makes Epsilon the identity
concat_keeps_epsilon(self, other) ==
  IF self = Empty \/ other = Empty THEN Empty
  ELSE IF self.tag = "Concat" /\ other.tag = "Concat" THEN Concat(self.v \o other.v)
  ELSE IF other.tag = "Concat" THEN Concat(<<self>> \o other.v)
  ELSE IF self.tag = "Concat" THEN Concat(Append(self.v, other))
  ELSE Concat(<<self, other>>)

concat(self, other) ==
  IF self = Empty \/ other = Empty THEN Empty
  ELSE IF self = Epsilon THEN other
  ELSE IF other = Epsilon THEN self
  ELSE IF self.tag = "Concat" /\ other.tag = "Concat" THEN Concat(self.v \o other.v)
  ELSE IF other.tag = "Concat" THEN Concat(<<self>> \o other.v)
  ELSE IF self.tag = "Concat" THEN Concat(Append(self.v, other))
  ELSE Concat(<<self, other>>)

RECURSIVE SeqFrom(_, _)
SeqFrom(reg, s) ==
  IF s = <<>> THEN reg ELSE SeqFrom(concat(reg, Element(Head(s))), Tail(s))

\* s.chars().map(Element).reduce(concat).unwrap_or(Epsilon)
seq(s) ==
  IF s = <<>> THEN Epsilon ELSE SeqFrom(Element(Head(s)), Tail(s))


regex_or(self, other) ==
  IF self = Empty THEN other
  ELSE IF other = Empty THEN self
  ELSE IF self = Epsilon /\ other.tag = "Star" THEN other
  ELSE IF self.tag = "Star" /\ other = Epsilon THEN self
  ELSE IF self.tag = "Or" /\ other.tag = "Or"
       THEN RegexOr(VecSort(PushNew(self.v, other.v)))
  ELSE IF self.tag = "Or"
       THEN (IF Contains(self.v, other) THEN self
             ELSE RegexOr(VecSort(Append(self.v, other))))
  ELSE IF other.tag = "Or"
       THEN (IF Contains(other.v, self) THEN other
             ELSE RegexOr(VecSort(Append(other.v, self))))
  ELSE IF self = other THEN self
  ELSE RegexOr(<<self, other>>)

inter(self, other) ==
  IF \/ self = Epsilon /\ other.tag = "Star"
     \/ self.tag = "Star" /\ other = Epsilon
     \/ self = Epsilon /\ other = Epsilon
  THEN Epsilon
  ELSE IF self = Empty \/ other = Empty \/ self = Epsilon \/ other = Epsilon
  THEN Empty
  ELSE IF self.tag = "Inter" /\ other.tag = "Inter"
       THEN Inter(VecSort(PushNew(self.v, other.v)))
  ELSE IF self.tag = "Inter"
       THEN (IF Contains(self.v, other) THEN self
             ELSE Inter(VecSort(Append(self.v, other))))
  ELSE IF other.tag = "Inter"
       THEN (IF Contains(other.v, self) THEN other
             ELSE Inter(VecSort(Append(other.v, self))))
  ELSE IF self = other THEN self
  ELSE Inter(<<self, other>>)

star(self) ==
  IF self = Empty THEN Epsilon
  ELSE IF self = Epsilon THEN Epsilon
  ELSE IF self.tag = "Star" THEN self.r
  ELSE Star(self)

plus(self) == Plus(self)

regex_not(self) ==
  IF self = Empty THEN star(all)
  ELSE IF self.tag = "Not" THEN self.r
  ELSE RegexNot(self)


(* ---- the callers of the regex constructors: a session on two regex slots ---- *)
RegexChars == ScanStart .. (ScanStart + NumRegexChars - 1)

\* the strings seq is called with
Strings == UNION {[1..n -> RegexChars] : n \in 0..MaxLen}

RECURSIVE RegexSize(_)
RECURSIVE VecSize(_)
\* number of nodes of a regex tree
RegexSize(x) ==
  CASE x.tag \in {"Empty", "Epsilon", "All", "Element", "Range"} -> 1
    [] x.tag \in {"Concat", "Or", "Inter"} -> 1 + VecSize(x.v)
    [] x.tag \in {"Star", "Plus", "Not"} -> 1 + RegexSize(x.r)

VecSize(v) == IF v = <<>> THEN 0 ELSE RegexSize(Head(v)) + VecSize(Tail(v))

\* keep the returned regex in slot p while it has at most MaxRegexNodes nodes
KeepRegex(v) ==
  IF RegexSize(v) <= MaxRegexNodes THEN p' = v /\ q' = q ELSE UNCHANGED <<p, q>>

InitRegex ==
  /\ p = empty
  /\ q = empty
  /\ op = "empty"
  /\ args = <<>>
  /\ res = empty
  /\ InitStateCnt

\* q = Regex::empty() | Regex::epsilon() | Regex::all()
CallAtomic ==
  \E f \in {"empty", "epsilon", "all"} :
    /\ op' = f
    /\ args' = <<>>
    /\ res' = (CASE f = "empty" -> empty [] f = "epsilon" -> epsilon [] f = "all" -> all)
    /\ q' = res'
    /\ p' = p
    /\ UNCHANGED idVars

\* q = Regex::element(c)
CallElement ==
  \E c \in RegexChars :
    /\ op' = "element"
    /\ args' = <<c>>
    /\ res' = element(c)
    /\ q' = res'
    /\ p' = p
    /\ UNCHANGED idVars

\* q = Regex::seq(s)
CallSeq ==
  \E s \in Strings :
    /\ op' = "seq"
    /\ args' = <<s>>
    /\ res' = seq(s)
    /\ q' = res'
    /\ p' = p
    /\ UNCHANGED idVars

\* p = x.concat(y)
CallConcat ==
  \E i \in 1..2, j \in 1..2 :
    /\ op' = "concat"
    /\ args' = <<Reg(i), Reg(j)>>
    /\ res' = concat(Reg(i), Reg(j))
    /\ KeepRegex(res')
    /\ UNCHANGED idVars

\* p = x.or(y)
CallRegexOr ==
  \E i \in 1..2, j \in 1..2 :
    /\ op' = "or"
    /\ args' = <<Reg(i), Reg(j)>>
    /\ res' = regex_or(Reg(i), Reg(j))
    /\ KeepRegex(res')
    /\ UNCHANGED idVars

\* p = x.inter(y)
CallInter ==
  \E i \in 1..2, j \in 1..2 :
    /\ op' = "inter"
    /\ args' = <<Reg(i), Reg(j)>>
    /\ res' = inter(Reg(i), Reg(j))
    /\ KeepRegex(res')
    /\ UNCHANGED idVars

\* p = x.star()
CallStar ==
  \E i \in 1..2 :
    /\ op' = "star"
    /\ args' = <<Reg(i)>>
    /\ res' = star(Reg(i))
    /\ KeepRegex(res')
    /\ UNCHANGED idVars

\* p = x.plus()
CallPlus ==
  \E i \in 1..2 :
    /\ op' = "plus"
    /\ args' = <<Reg(i)>>
    /\ res' = plus(Reg(i))
    /\ KeepRegex(res')
    /\ UNCHANGED idVars

\* p = x.not()
CallRegexNot ==
  \E i \in 1..2 :
    /\ op' = "not"
    /\ args' = <<Reg(i)>>
    /\ res' = regex_not(Reg(i))
    /\ KeepRegex(res')
    /\ UNCHANGED idVars

NextRegex ==
  \/ CallAtomic
  \/ CallElement
  \/ CallSeq
  \/ CallConcat
  \/ CallRegexOr
  \/ CallInter
  \/ CallStar
  \/ CallPlus
  \/ CallRegexNot

\* sessions that build regular expressions
SpecRegex == InitRegex /\ [][NextRegex]_vars


(* ---- the claims on regular expressions ---- *)
\* C11: Empty.star() and Epsilon.star() are Epsilon, star of Star(r) is Star(r)
\* again, so star is idempotent, and star of any other r is Star(r).
C11_StarNormalizes ==
  op = "star" =>
    /\ args[1] \in {Empty, Epsilon} => res = Epsilon
    /\ args[1].tag = "Star" => res = args[1]
    /\ (args[1] \notin {Empty, Epsilon} /\ args[1].tag # "Star") => res = Star(args[1])
    /\ star(res) = res

\* each element is below the next one in the derived order, so none occurs twice
StrictlyAscending(v) == \A i \in 1..(Len(v) - 1) : RegexCmp(v[i], v[i + 1]) < 0

\* C12: the child list of an Or made by or (of an Inter made by inter) is sorted
\* ascending, free of duplicates and free of nested Or (Inter); the operand
\* order does not matter and r.or(r) = r, r.inter(r) = r.
C12_OrInterCanonical ==
  /\ op = "or" =>
       /\ res.tag = "Or" =>
            /\ StrictlyAscending(res.v)
            /\ \A i \in 1..Len(res.v) : res.v[i].tag # "Or"
       /\ regex_or(args[2], args[1]) = res
       /\ regex_or(args[1], args[1]) = args[1]
  /\ op = "inter" =>
       /\ res.tag = "Inter" =>
            /\ StrictlyAscending(res.v)
            /\ \A i \in 1..Len(res.v) : res.v[i].tag # "Inter"
       /\ inter(args[2], args[1]) = res
       /\ inter(args[1], args[1]) = args[1]

RECURSIVE AcceptsEmpty(_)
\* the empty string is in the language of r
AcceptsEmpty(r) ==
  CASE r.tag \in {"Empty", "All", "Element", "Range"} -> FALSE
    [] r.tag \in {"Epsilon", "Star"} -> TRUE
    [] r.tag = "Plus" -> AcceptsEmpty(r.r)
    [] r.tag = "Not" -> ~AcceptsEmpty(r.r)
    [] r.tag = "Or" -> \E i \in 1..Len(r.v) : AcceptsEmpty(r.v[i])
    [] r.tag \in {"Concat", "Inter"} -> \A i \in 1..Len(r.v) : AcceptsEmpty(r.v[i])

\* C13: inter with Empty on either side is Empty; inter with Epsilon on either
\* side is Epsilon when the other operand accepts the empty string and Empty
\* when it does not.
C13_InterTrivialOperands ==
  op = "inter" =>
    /\ (args[1] = Empty \/ args[2] = Empty) => res = Empty
    /\ args[1] = Epsilon => res = (IF AcceptsEmpty(args[2]) THEN Epsilon ELSE Empty)
    /\ args[2] = Epsilon => res = (IF AcceptsEmpty(args[1]) THEN Epsilon ELSE Empty)

\* C14: r.not().not() = r for every regex r, Empty included, and Empty.not() is
\* Star(All).
C14_NotInvolution ==
  op = "not" =>
    /\ regex_not(res) = args[1]
    /\ args[1] = Empty => res = Star(All)

RECURSIVE ConcatFlat(_)
\* no Concat node of x has a Concat, an Empty or an Epsilon as a direct child
ConcatFlat(x) ==
  CASE x.tag \in {"Empty", "Epsilon", "All", "Element", "Range"} -> TRUE
    [] x.tag = "Concat" ->
         \A i \in 1..Len(x.v) :
           x.v[i].tag \notin {"Concat", "Empty", "Epsilon"} /\ ConcatFlat(x.v[i])
    [] x.tag \in {"Or", "Inter"} -> \A i \in 1..Len(x.v) : ConcatFlat(x.v[i])
    [] x.tag \in {"Star", "Plus", "Not"} -> ConcatFlat(x.r)

\* the string s with x = seq(s), for an x that is Epsilon, an Element or a
\* Concat of Elements
StringOf(x) ==
  IF x = Epsilon THEN <<>>
  ELSE IF x.tag = "Element" THEN <<x.c>>
  ELSE [i \in 1..Len(x.v) |-> x.v[i].c]

\* x is seq(s) for some string s
IsSeq(x) ==
  /\ x = Epsilon \/ x.tag = "Element"
       \/ (x.tag = "Concat" /\ \A i \in 1..Len(x.v) : x.v[i].tag = "Element")
  /\ x = seq(StringOf(x))

\* C15: concat with Empty on either side is Empty, with Epsilon on either side
\* is the other operand, its result has no Concat, Empty or Epsilon directly
\* under a Concat, and seq(s1).concat(seq(s2)) = seq(s1 followed by s2).
C15_ConcatFlatteningMonoid ==
  op = "concat" =>
    /\ (args[1] = Empty \/ args[2] = Empty) => res = Empty
    /\ args[1] = Epsilon => res = args[2]
    /\ args[2] = Epsilon => res = args[1]
    /\ ConcatFlat(res)
    /\ (IsSeq(args[1]) /\ IsSeq(args[2])) =>
         res = seq(StringOf(args[1]) \o StringOf(args[2]))

\* C15 witness: two sequences of two elements were concatenated into one flat
\* list of four.
C15_Witness ==
  /\ op = "concat"
  /\ args[1].tag = "Concat"
  /\ args[2].tag = "Concat"
  /\ res.tag = "Concat"
  /\ Len(res.v) = 4
  /\ \A i \in 1..4 : res.v[i].tag = "Element"


(* ---- trait StateMachine: minimize and generalized_run ---- *)
\* the fields behind states(), initial_state(), final_set() and transition();
\* transition maps a key <<s, phi>> to the Vec of its targets
Machine(states, initial, final_set, transition) ==
  [states |-> states, initial |-> initial, final_set |-> final_set,
   transition |-> transition]

Elems(v) == {v[i] : i \in 1..Len(v)}

\* the sequences that list every element of S once
Orders(S) ==
  {o \in [1..Cardinality(S) -> S] : \A i, j \in 1..Cardinality(S) : o[i] = o[j] => i = j}

\* the order in which a HashMap or HashSet with the entries S is iterated: one
\* of Orders(S), not chosen by the program; the sets of states and the answers
\* computed from an iteration are the same for each of them
IterationOrder(S) == CHOOSE o \in Orders(S) : TRUE

RECURSIVE Entries(_, _)
\* for ((s, phi), target) in transition { for t in target { ... } }: the triples
\* <<s, phi, t>> in the order the two loops visit them
Entries(transition, order) ==
  IF order = <<>> THEN <<>>
  ELSE [i \in 1..Len(transition[Head(order)]) |->
          <<Head(order)[1], Head(order)[2], transition[Head(order)][i]>>]
       \o Entries(transition, Tail(order))

RECURSIVE PushTargets(_, _, _, _)
\* the inner loops of the forward pass for one popped state
PushTargets(entries, state, reachables, stack) ==
  IF entries = <<>> THEN stack
  ELSE PushTargets(Tail(entries), state, reachables,
         IF /\ Head(entries)[1] = state
            /\ ~Contains(reachables, Head(entries)[3])
            /\ ~Contains(stack, Head(entries)[3])
            /\ satisfiable(Head(entries)[2])
         THEN Append(stack, Head(entries)[3])
         ELSE stack)

RECURSIVE Forward(_, _, _)
\* while let Some(state) = stack.pop() of the forward pass
Forward(entries, stack, reachables) ==
  IF stack = <<>> THEN reachables
  ELSE Forward(entries,
         PushTargets(entries, stack[Len(stack)], Append(reachables, stack[Len(stack)]),
                     SubSeq(stack, 1, Len(stack) - 1)),
         Append(reachables, stack[Len(stack)]))

RECURSIVE PushSources(_, _, _, _)
\* the inner loops of the backward pass for one popped state
PushSources(entries, state, reachables, stack) ==
  IF entries = <<>> THEN stack
  ELSE PushSources(Tail(entries), state, reachables,
         IF /\ Head(entries)[3] = state
            /\ ~Contains(reachables, Head(entries)[1])
            /\ ~Contains(stack, Head(entries)[1])
            /\ satisfiable(Head(entries)[2])
         THEN Append(stack, Head(entries)[1])
         ELSE stack)

RECURSIVE Backward(_, _, _)
\* while let Some(state) = stack.pop() of the backward pass
Backward(entries, stack, reachables) ==
  IF stack = <<>> THEN reachables
  ELSE Backward(entries,
         PushSources(entries, stack[Len(stack)], Append(reachables, stack[Len(stack)]),
                     SubSeq(stack, 1, Len(stack) - 1)),
         Append(reachables, stack[Len(stack)]))

\* the rebuilt table when an entry that loses a target is dropped as a whole
Retain_whole_entries(transition, states) ==
  [k \in {k \in DOMAIN transition :
            k[1] \in states /\ \A i \in 1..Len(transition[k]) : transition[k][i] \in states}
     |-> transition[k]]

\* the filter_map that rebuilds the table: keys whose source is kept, targets
\* that are kept, entries left without a target dropped
Retain(transition, states) ==
  [k \in {k \in DOMAIN transition :
            k[1] \in states /\ \E i \in 1..Len(transition[k]) : transition[k][i] \in states}
     |-> SelectSeq(transition[k], LAMBDA t : t \in states)]

\* the machine after the forward pass
ForwardPruned(self, order) ==
  LET reachables == Forward(Entries(self.transition, order), <<self.initial>>, <<>>)
  IN [self EXCEPT !.states = Elems(reachables),
                  !.transition = Retain(self.transition, Elems(reachables))]

\* minimize without the backward pass
minimize_forward_only(self, order1, finals, order2) ==
  LET fwd == ForwardPruned(self, order1)
  IN Machine(fwd.states,
             self.initial,
             {fs \in Elems(finals) : fs \in fwd.states},
             fwd.transition)

\* StateMachine::minimize; order1, finals and order2 are the orders in which
\* the table, the final set and the rebuilt table are iterated
minimize(self, order1, finals, order2) ==
  LET fwd == ForwardPruned(self, order1)
      stack == SelectSeq(finals, LAMBDA fs : fs \in fwd.states)
      reachables == Append(Backward(Entries(fwd.transition, order2), stack, <<>>),
                           self.initial)
  IN Machine(Elems(reachables),
             self.initial,
             {fs \in Elems(stack) : fs \in Elems(reachables)},
             Retain(fwd.transition, Elems(reachables)))


RECURSIVE Advance(_, _, _, _)
\* one input symbol c: for each possibility, in order, the targets of the
\* entries whose source is its state and whose guard denotes c
Advance(self, entries, possibilities, c) ==
  IF possibilities = <<>> THEN <<>>
  ELSE LET taken == SelectSeq(entries,
                      LAMBDA e : e[1] = Head(possibilities) /\ denote(e[2], c))
       IN [i \in 1..Len(taken) |-> taken[i][3]]
          \o Advance(self, entries, Tail(possibilities), c)

RECURSIVE generalized_run(_, _, _, _)
\* StateMachine::generalized_run with the step function of SFA membership (the
\* next possibility is the target); returns the possibilities handed to the
\* output function
generalized_run(self, order, input, initial_possibilities) ==
  IF input = <<>> THEN initial_possibilities
  ELSE generalized_run(self, order, Tail(input),
         Advance(self, Entries(self.transition, order), initial_possibilities, Head(input)))

\* SFA membership: start from the initial state, accept iff a possibility is final
member(self, order, input) ==
  \E t \in Elems(generalized_run(self, order, input, <<self.initial>>)) :
    t \in self.final_set


(* ---- the callers of the state machine: a machine, minimized and run ---- *)
StateIds == 0 .. (NumStates - 1)

\* the guards of the machines: one that no character satisfies, one for 'a'
Guards == {bot, char(ScanStart)}

\* a character the guards denote and one they do not
Alphabet == {ScanStart, ScanStart + 1}

Words == UNION {[1..n -> Alphabet] : n \in 0..MaxLen}

RECURSIVE Ascend(_)
Ascend(S) == IF S = {} THEN <<>> ELSE <<Min(S)>> \o Ascend(S \ {Min(S)})

\* the table that holds the triples E, the targets of a key in ascending order
Table(E) ==
  [k \in {<<e[1], e[2]>> : e \in E} |->
     Ascend({e[3] : e \in {d \in E : d[1] = k[1] /\ d[2] = k[2]}})]

\* the machines of the sessions: any final set and any table of at most
\* MaxEdges triples over StateIds and Guards, started in the first state
Machines ==
  {Machine(StateIds, 0, F, Table(E)) :
     F \in SUBSET StateIds,
     E \in {E \in SUBSET (StateIds \X Guards \X StateIds) : Cardinality(E) <= MaxEdges}}

InitMachine ==
  /\ p \in Machines
  /\ q = p
  /\ op = "new"
  /\ args = <<>>
  /\ res = p
  /\ InitStateCnt

\* q = q.minimize()
CallMinimize ==
  /\ op' = "minimize"
  /\ args' = <<q>>
  /\ res' = minimize(q, IterationOrder(DOMAIN q.transition),
                     IterationOrder(q.final_set),
                     IterationOrder(DOMAIN ForwardPruned(q,
                       IterationOrder(DOMAIN q.transition)).transition))
  /\ q' = res'
  /\ p' = p
  /\ UNCHANGED idVars

\* q.generalized_run(input, vec![initial], step, finish) of SFA membership
CallRun ==
  \E input \in Words :
    /\ op' = "generalized_run"
    /\ args' = <<input>>
    /\ res' = member(q, IterationOrder(DOMAIN q.transition), input)
    /\ UNCHANGED <<p, q>>
    /\ UNCHANGED idVars

NextMachine ==
  \/ CallMinimize
  \/ CallRun

\* sessions that minimize a machine and run it
SpecMachine == InitMachine /\ [][NextMachine]_vars


(* ---- the claims on state machines ---- *)
\* the pairs <<source, target>> of the entries of m whose guard is satisfiable
SatSteps(m) ==
  UNION {{<<k[1], t>> : t \in Elems(m.transition[k])} :
           k \in {d \in DOMAIN m.transition : satisfiable(d[2])}}

RECURSIVE Closure(_, _)
\* the states reached from S along the pairs of steps
Closure(S, steps) ==
  IF {e[2] : e \in {d \in steps : d[1] \in S}} \subseteq S THEN S
  ELSE Closure(S \cup {e[2] : e \in {d \in steps : d[1] \in S}}, steps)

\* C16: after minimize the initial state is kept, and every other state is
\* reached from the initial state and reaches a final state along retained
\* transitions with a satisfiable guard.
C16_TrimAfterMinimize ==
  op = "minimize" =>
    /\ res.initial \in res.states
    /\ \A s \in res.states \ {res.initial} :
         /\ s \in Closure({res.initial}, SatSteps(res))
         /\ Closure({s}, SatSteps(res)) \cap res.final_set # {}

\* C16 witness: a machine was minimized that keeps a second state, one that is
\* not final and reaches a final state through a transition.
C16_Witness ==
  /\ op = "minimize"
  /\ \E s \in res.states : s # res.initial /\ s \notin res.final_set

\* C17: after minimize every key (s, phi) of the transition table has a
\* satisfiable phi.
C17_NoUnsatisfiableGuard ==
  op = "minimize" => \A k \in DOMAIN res.transition : satisfiable(k[2])

\* C18: membership computed by generalized_run gives the same answer on the
\* minimized machine as on the machine it was made from, for every input.
C18_MinimizePreservesLanguage ==
  op = "generalized_run" =>
    res = member(p, IterationOrder(DOMAIN p.transition), args[1])

\* C18 witness: a machine that lost a state in minimize accepted an input that
\* is not empty.
C18_Witness ==
  /\ op = "generalized_run"
  /\ q.states # p.states
  /\ args[1] # <<>>
  /\ res = TRUE


(* ---- State identifiers: STATE_CNT and State::new ---- *)
\* struct StateImpl(usize)
StateImpl(n) == [n |-> n]

\* the derived PartialEq of StateImpl, which Rc<StateImpl> forwards to
StateEq(a, b) == a.n = b.n

\* the derived Hash of StateImpl: the values fed to the hasher
StateHash(a) == <<a.n>>

\* the derived Clone of StateImpl, Rc::clone for Rc<StateImpl>
clone(a) == StateImpl(a.n)

\* a counter that is read without being advanced
fetch_add_stale(cnt, val) == cnt

\* the value STATE_CNT holds after fetch_add(val, SeqCst); it wraps at
\* usize::MAX + 1, which no session of MaxCalls calls reaches
fetch_add(cnt, val) == cnt + val

\* the calls of State::new begun so far
Begun == Len(ids) + Cardinality({t \in Threads : pending[t] # None})

\* thread t, inside State::new: STATE_CNT.fetch_add(1, Ordering::SeqCst), one
\* atomic read-modify-write
FetchAdd(t) ==
  /\ pending[t] = None
  /\ Begun < MaxCalls
  /\ pending' = [pending EXCEPT ![t] = Some(STATE_CNT)]
  /\ STATE_CNT' = fetch_add(STATE_CNT, 1)
  /\ UNCHANGED <<p, q, op, args, res, ids>>

\* thread t returns StateImpl(fetched value) from State::new
ReturnNew(t) ==
  /\ pending[t] # None
  /\ op' = "new"
  /\ args' = <<t>>
  /\ res' = StateImpl(pending[t][1])
  /\ ids' = Append(ids, res')
  /\ pending' = [pending EXCEPT ![t] = None]
  /\ UNCHANGED <<p, q, STATE_CNT>>

\* s.clone() of an identifier returned before
CallClone ==
  \E i \in 1..Len(ids) :
    /\ op' = "clone"
    /\ args' = <<ids[i]>>
    /\ res' = clone(ids[i])
    /\ UNCHANGED <<p, q>>
    /\ UNCHANGED idVars

NextState ==
  \/ \E t \in Threads : FetchAdd(t)
  \/ \E t \in Threads : ReturnNew(t)
  \/ CallClone

\* sessions of threads that create state identifiers
SpecState == Init /\ [][NextState]_vars

Char(a) == [tag |-> "Char", a |-> a]
Separator == [tag |-> "Separator"]

\* <char as Domain>::separator()
char_separator == SeparatorChar

\* impl From<char> for CharWrap
CharWrapFrom(a) == IF a = char_separator THEN Separator ELSE Char(a)

\* impl Into<char> for CharWrap
CharWrapInto(self) == IF self.tag = "Char" THEN self.a ELSE char_separator

\* impl Default for CharWrap
CharWrapDefault == Char(CharDefault)

\* <CharWrap as Domain>::separator()
charwrap_separator == Separator

\* the derived Ord of CharWrap: Char before Separator, two Chars by their char
CharWrapCmp(x, y) ==
  IF x.tag = "Char" /\ y.tag = "Char" THEN IntCmp(x.a, y.a)
  ELSE IF x.tag = y.tag THEN 0
  ELSE IF x.tag = "Char" THEN -1
  ELSE 1


(* ---- the callers of CharWrap: a session on a CharWrap slot p and a char slot q ---- *)
\* the characters of the calls: '#', char::default(), 'a', 'b', ...
WrapChars == {SeparatorChar, CharDefault} \cup RegexChars

CharWraps == {Separator} \cup {Char(a) : a \in WrapChars}

InitCharWrap ==
  /\ p = CharWrapDefault
  /\ q = CharDefault
  /\ op = "default"
  /\ args = <<>>
  /\ res = CharWrapDefault
  /\ InitStateCnt

\* p = CharWrap::Char(a)
CallCharVariant ==
  \E a \in WrapChars :
    /\ op' = "Char"
    /\ args' = <<a>>
    /\ res' = Char(a)
    /\ p' = res'
    /\ q' = q
    /\ UNCHANGED idVars

\* p = CharWrap::separator()
CallSeparator ==
  /\ op' = "separator"
  /\ args' = <<>>
  /\ res' = charwrap_separator
  /\ p' = res'
  /\ q' = q
  /\ UNCHANGED idVars

\* p = CharWrap::from(a)
CallCharWrapFrom ==
  \E a \in WrapChars :
    /\ op' = "from"
    /\ args' = <<a>>
    /\ res' = CharWrapFrom(a)
    /\ p' = res'
    /\ q' = q
    /\ UNCHANGED idVars

\* q = p.into()
CallCharWrapInto ==
  /\ op' = "into"
  /\ args' = <<p>>
  /\ res' = CharWrapInto(p)
  /\ q' = res'
  /\ p' = p
  /\ UNCHANGED idVars

\* p.cmp(&y)
CallCmp ==
  \E y \in CharWraps :
    /\ op' = "cmp"
    /\ args' = <<p, y>>
    /\ res' = CharWrapCmp(p, y)
    /\ UNCHANGED <<p, q>>
    /\ UNCHANGED idVars

NextCharWrap ==
  \/ CallCharVariant
  \/ CallSeparator
  \/ CallCharWrapFrom
  \/ CallCharWrapInto
  \/ CallCmp

\* sessions that convert between char and CharWrap
SpecCharWrap == InitCharWrap /\ [][NextCharWrap]_vars

\* C20: for every CharWrap x other than Separator, Char('#') included,
\* CharWrap::from(x.into()) = x; and Separator is strictly greater than every
\* Char(c).
C20_CharWrapRoundTrip ==
  /\ (op = "into" /\ args[1] # Separator) => CharWrapFrom(res) = args[1]
  /\ (op = "cmp" /\ args[1] = Separator /\ args[2].tag = "Char") => res = 1
  /\ (op = "cmp" /\ args[1].tag = "Char" /\ args[2] = Separator) => res = -1


(* ---- termination of the witness extraction ---- *)
\* C21: get_one finishes with Ok(v) or NoElement on every WithLambda-free
\* predicate; the conversion of a structural Or, rewritten as
\* not(and(not(p1), not(p2))) and converted again, does not recurse forever.
C21_GetOneTerminates ==
  (op = "get_one" /\ LambdaFree(args[1])) => res.tag \in {"Ok", "NoElement"}


(* ---- #[derive(Hash)] on Predicate: the bytes handed to the hasher ---- *)
\* an integer write of the given width: the little-endian bytes of a
\* non-negative value below 2^32
Bytes(width, v) ==
  [i \in 1..width |-> IF i > 4 THEN 0 ELSE (v \div (ByteMod ^ (i - 1))) % ByteMod]

\* Hash for Option<T>, T = char: the discriminant (an isize), then the value
\* of Some (a u32)
OptionHash(o) ==
  IF o = None THEN Bytes(8, 0) ELSE Bytes(8, 1) \o Bytes(4, o[1])

\* Hash for Vec<T>, T = char: the length (a usize), then the elements in order
VecHash(els) ==
  Bytes(8, Len(els))
    \o [k \in 1..(4 * Len(els)) |-> Bytes(4, els[((k - 1) \div 4) + 1])[((k - 1) % 4) + 1]]

RECURSIVE LambdaHash(_)
RECURSIVE PredicateHash(_)
RECURSIVE PairsHash(_, _, _)
\* the entries of a Mapping (kind "m") or of a Function (kind "fs"), in order
PairsHash(v, i, kind) ==
  IF i > Len(v) THEN <<>>
  ELSE (IF kind = "m" THEN Bytes(4, v[i][1]) ELSE PredicateHash(v[i][1]))
       \o Bytes(4, v[i][2]) \o PairsHash(v, i + 1, kind)

\* Hash for Lambda<B>: structural, the variant and then its fields
LambdaHash(f) ==
  CASE f.tag = "Id" -> Bytes(8, 0)
    [] f.tag = "Constant" -> Bytes(8, 1) \o Bytes(4, f.c)
    [] f.tag = "Mapping" ->
         Bytes(8, 2) \o Bytes(8, Len(f.m)) \o PairsHash(f.m, 1, "m")
    [] f.tag = "Function" ->
         Bytes(8, 3) \o Bytes(8, Len(f.fs)) \o PairsHash(f.fs, 1, "fs")
    [] f.tag = "Composition" ->
         Bytes(8, 4) \o LambdaHash(f.f) \o LambdaHash(f.g)

\* the derived Hash for Predicate: the variant's index (an isize), then the
\* fields in declaration order (a bool is a u8, a char a u32)
PredicateHash(x) ==
  CASE x.tag = "Bool" -> Bytes(8, 0) \o Bytes(1, IF x.b THEN 1 ELSE 0)
    [] x.tag = "Eq" -> Bytes(8, 1) \o Bytes(4, x.a)
    [] x.tag = "Range" -> Bytes(8, 2) \o OptionHash(x.left) \o OptionHash(x.right)
    [] x.tag = "InSet" -> Bytes(8, 3) \o VecHash(x.els)
    [] x.tag = "And" -> Bytes(8, 4) \o PredicateHash(x.p1) \o PredicateHash(x.p2)
    [] x.tag = "Or" -> Bytes(8, 5) \o PredicateHash(x.p1) \o PredicateHash(x.p2)
    [] x.tag = "Not" -> Bytes(8, 6) \o PredicateHash(x.p)
    [] x.tag = "WithLambda" ->
         Bytes(8, 7) \o PredicateHash(x.p) \o LambdaHash(x.f)

\* the connective of the last call applied to its operands in the other order
Swapped == IF op = "and" THEN and(args[2], args[1]) ELSE or(args[2], args[1])

\* C22: predicates that are equal (==, commutative on And and Or) hand the
\* same bytes to the hasher: the two slots when they are equal, and x.and(&y)
\* with y.and(&x), x.or(&y) with y.or(&x) whenever these are equal.
C22_EqImpliesSameHash ==
  /\ PredEq(p, q) => PredicateHash(p) = PredicateHash(q)
  /\ (op \in {"and", "or"} /\ PredEq(res, Swapped))
       => PredicateHash(res) = PredicateHash(Swapped)

====
